---- MODULE Spec2Model ----
(***************************************************************************)
(* Model of libdstructs' linkedlist.c: a singly linked list whose nodes    *)
(* cache their index, with __first/__last header pointers.                 *)
(*                                                                         *)
(* Nodes live in a small heap of cells addressed by 1..MaxNodes; malloc    *)
(* may return any cell that is not live (a freed cell can be handed out    *)
(* again) or fail.  free() leaves the cell's next field in place and       *)
(* overwrites its leading fields (element, index) with allocator data,     *)
(* which the model draws nondeterministically.  A cell that nothing        *)
(* refers to any more has no observable content and is kept blank.         *)
(* A read through an unassigned pointer, a free of a non-live cell and a   *)
(* null dereference end the run ("crash"); a loop over a cyclic chain      *)
(* never returns ("hang"); a call that frees through an unassigned pointer *)
(* and returns leaves the run in a state that is not followed further      *)
(* ("wild").                                                               *)
(***************************************************************************)
EXTENDS Integers, Sequences, FiniteSets, TLC

\* ------------------------------------------------------------- bounds ---
MaxNodes == 3          \* cells of the node heap
NumElems == 3          \* caller-owned payloads
MaxItrs  == 2          \* cursors that can be allocated at once

\* ---------------------------------------------------------- constants ---
NULL  == 0
ADDED == 1
EXIST == 1
Junk  == -1            \* a pointer value that designates no payload
LIST  == 1             \* the caller's handle on the list header

Addr    == 1..MaxNodes
Elems   == {100 + i : i \in 1..NumElems}
Indices == -1..(MaxNodes + 1)      \* index arguments the caller passes
Garbage == -2..MaxNodes            \* what an index field reads after free
ItrIds  == 1..MaxItrs

VARIABLES
  list,     \* the caller's llist_t*: LIST, or NULL once ll_free has run
  first,    \* list->__first
  last,     \* list->__last
  mem,      \* the node heap: cell -> [element, index, next, live]
  itrs,     \* cursor heap: id -> [state, next]
  fault,    \* "none" | "crash" | "hang" | "wild"
  call      \* the call that produced this state, with its result

vars == <<list, first, last, mem, itrs, fault, call>>

\* struct __node_s, as a blank (never used or forgotten) cell
Blank == [element |-> NULL, index |-> 0, next |-> NULL, live |-> FALSE]

\* The list as the functions below see it
L == [first |-> first, last |-> last, mem |-> mem, fault |-> fault]

\* ------------------------------------------------------ chain walking ---
\* The cells visited by   for (t = a; t; t = t->next)   up to the first
\* repeated cell.
RECURSIVE Walk(_, _, _)
Walk(a, m, seen) ==
  IF a = NULL \/ a \in seen THEN <<>>
  ELSE <<a>> \o Walk(m[a].next, m, seen \cup {a})

Path(a, m) == Walk(a, m, {})

\* TRUE when that loop never reaches a null link
RECURSIVE Cycles(_, _, _)
Cycles(a, m, seen) ==
  IF a = NULL THEN FALSE
  ELSE IF a \in seen THEN TRUE
  ELSE Cycles(m[a].next, m, seen \cup {a})

Loops(a, m) == Cycles(a, m, {})

Range(s) == {s[k] : k \in 1..Len(s)}

\* The cells of the chain that starts at __first
Chain(l) == Range(Path(l.first, l.mem))

\* What is left of a freed cell that can still be observed: all of it while
\* the chain leads to it, its index field while only __last points to it
\* (ll_size reads nothing else through __last), nothing otherwise
Remains(l, a) ==
  IF a \in Chain(l) THEN l.mem[a]
  ELSE IF a = l.last THEN [Blank EXCEPT !.index = l.mem[a].index]
  ELSE Blank

Forget(l) ==
  [l EXCEPT !.mem = [a \in Addr |->
      IF l.mem[a].live THEN l.mem[a] ELSE Remains(l, a)]]

\* The cells malloc can return: a freed cell the list still points to, or a
\* blank one (blank cells are interchangeable: the lowest stands for all)
FreeCells(m) ==
  LET free  == {a \in Addr : ~m[a].live}
      blank == {a \in free : m[a] = Blank}
  IN  (free \ blank) \cup {a \in blank : \A b \in blank : a <= b}

\* The call worked through a pointer it never assigned and came back: the
\* state it leaves is kept, the calls after it are not followed
Wild(l)  == IF l.fault = "none" THEN [l EXCEPT !.fault = "wild"] ELSE l

Crash(l) == [l EXCEPT !.fault = "crash"]
Hang(l)  == [l EXCEPT !.fault = "hang"]

\* An outcome of a call: the list afterwards, the value returned, and what
\* became of the call's malloc ("none" when it made none)
Out(l, r, a) == [l |-> l, ret |-> r, alloc |-> a]

\* A call that does not return: its result is never seen
Stop(l) == Out(l, NULL, "none")

\* --------------------------------------------------------- ll_size ---
ll_size(l, lst) ==
  IF lst = NULL THEN -1
  ELSE IF l.last # NULL THEN l.mem[l.last].index + 1 ELSE 0

\* Add d to the index of every cell from a on (the re-index loops)
Reindex(l, a, d) ==
  IF Loops(a, l.mem) THEN Hang(l)
  ELSE LET P == Range(Path(a, l.mem))
       IN  [l EXCEPT !.mem = [c \in Addr |->
              IF c \in P THEN [l.mem[c] EXCEPT !.index = @ + d] ELSE l.mem[c]]]

\* The scan   while(temp->next){ if(temp->next->index == index) ... }   from
\* __first: the cells temp whose successor carries the index, in scan order
ScanHits(l, index) ==
  LET P == Path(l.first, l.mem)
  IN  SelectSeq(P, LAMBDA t : /\ l.mem[t].next # NULL
                              /\ l.mem[l.mem[t].next].index = index)

\* The scan   while(temp){ if(temp->index == index) ... }   from __first
IndexHits(l, index) ==
  SelectSeq(Path(l.first, l.mem), LAMBDA t : l.mem[t].index = index)

\* ---------------------------------------------------------- ll_add ---
\* Lines 140-196, with the node malloc returned in cell new
AddNode(l, new, index, element) ==
  LET l1 == [l EXCEPT !.mem[new] = [element |-> element, index |-> index,
                                    next |-> NULL, live |-> TRUE]]
  IN  IF ll_size(l1, LIST) = 0
        THEN [l1 EXCEPT !.first = new, !.last = new]
      ELSE IF index = ll_size(l1, LIST)
        THEN [l1 EXCEPT !.mem[l1.last].next = new, !.last = new]
      ELSE IF index = 0
        THEN LET l2 == [l1 EXCEPT !.mem[new].next = l1.first, !.first = new]
             IN  Reindex(l2, l2.mem[new].next, 1)
      ELSE IF l1.first = NULL THEN Crash(l1)
      ELSE LET hits == ScanHits(l1, index)
           IN  IF hits # <<>>
                 THEN LET temp == Head(hits)
                          l2 == [l1 EXCEPT !.mem[new].next = l1.mem[temp].next]
                          l3 == [l2 EXCEPT !.mem[temp].next = new]
                      IN  Reindex(l3, l3.mem[new].next, 1)
               ELSE IF Loops(l1.first, l1.mem) THEN Hang(l1)
               ELSE l1

\* ll_add without   if(!new) return !ADDED;   : the initialisation writes
\* through the null pointer
ll_add_unchecked(l, lst, index, element) ==
  IF lst = NULL THEN {Out(l, 1 - ADDED, "none")}
  ELSE IF index < 0 \/ index > ll_size(l, lst) THEN {Out(l, 1 - ADDED, "none")}
  ELSE {Out(Crash(l), 1 - ADDED, "fail")} \cup
       {LET r == AddNode(l, new, index, element)
        IN  IF r.fault = "none" THEN Out(Forget(r), ADDED, "ok") ELSE Stop(r)
          : new \in FreeCells(l.mem)}

ll_add(l, lst, index, element) ==
  IF lst = NULL THEN {Out(l, 1 - ADDED, "none")}
  ELSE IF index < 0 \/ index > ll_size(l, lst) THEN {Out(l, 1 - ADDED, "none")}
  ELSE {Out(l, 1 - ADDED, "fail")} \cup
       {LET r == AddNode(l, new, index, element)
        IN  IF r.fault = "none" THEN Out(Forget(r), ADDED, "ok") ELSE Stop(r)
          : new \in FreeCells(l.mem)}

\* ------------------------------------------------------- ll_remove ---
\* free(target): the cell stops being live; its leading fields are the
\* allocator's from here on
FreeNode(l, target) ==
  IF ~l.mem[target].live THEN {Crash(l)}
  ELSE {[l EXCEPT !.mem[target] = [element |-> e, index |-> g,
                                   next |-> @.next, live |-> FALSE]]
          : g \in Garbage, e \in {l.mem[target].element, Junk}}

\* Lines 426-439: re-index what follows target, take its element, free it
FreeTarget(l, target) ==
  LET l1 == Reindex(l, l.mem[target].next, -1)
  IN  IF l1.fault # "none" THEN {Stop(l1)}
      ELSE {IF l2.fault = "none"
              THEN Out(Forget(l2), l1.mem[target].element, "none")
              ELSE Stop(l2)
             : l2 \in FreeNode(l1, target)}

\* ll_remove with the range check   index > ll_size(list)
ll_remove_offbyone(l, lst, index) ==
  IF lst = NULL THEN {Out(l, NULL, "none")}
  ELSE IF index < 0 \/ index > ll_size(l, lst) THEN {Out(l, NULL, "none")}
  ELSE IF ll_size(l, lst) = 0 THEN {Out(l, NULL, "none")}
  ELSE IF index = 0
    THEN IF l.first = NULL THEN {Stop(Crash(l))}
         ELSE LET target == l.first
                  temp   == l.mem[target].next
                  l1     == [l EXCEPT !.first = temp,
                                      !.last = IF temp = NULL THEN temp ELSE @]
              IN  FreeTarget(l1, target)
  ELSE IF l.first = NULL THEN {Stop(Crash(l))}
  ELSE LET hits == ScanHits(l, index)
       IN  IF hits # <<>>
             THEN LET temp   == Head(hits)
                      target == l.mem[temp].next
                  IN  FreeTarget([l EXCEPT !.mem[temp].next = l.mem[target].next],
                             target)
           ELSE IF Loops(l.first, l.mem) THEN {Stop(Hang(l))}
           \* target was never assigned: it holds whatever the stack held, no
           \* node at all or any node an earlier call worked on
           ELSE {Stop(Crash(l))} \cup
                {Out(Wild(o.l), o.ret, o.alloc) : o \in UNION {FreeTarget(l, t) : t \in Addr}}

ll_remove(l, lst, index) ==
  IF lst = NULL THEN {Out(l, NULL, "none")}
  ELSE IF index < 0 \/ index >= ll_size(l, lst) THEN {Out(l, NULL, "none")}
  ELSE IF ll_size(l, lst) = 0 THEN {Out(l, NULL, "none")}
  ELSE IF index = 0
    THEN IF l.first = NULL THEN {Stop(Crash(l))}
         ELSE LET target == l.first
                  temp   == l.mem[target].next
                  l1     == [l EXCEPT !.first = temp,
                                      !.last = IF temp = NULL THEN temp ELSE @]
              IN  FreeTarget(l1, target)
  ELSE IF l.first = NULL THEN {Stop(Crash(l))}
  ELSE LET hits == ScanHits(l, index)
       IN  IF hits # <<>>
             THEN LET temp   == Head(hits)
                      target == l.mem[temp].next
                  IN  FreeTarget([l EXCEPT !.mem[temp].next = l.mem[target].next],
                             target)
           ELSE IF Loops(l.first, l.mem) THEN {Stop(Hang(l))}
           \* target was never assigned: it holds whatever the stack held, no
           \* node at all or any node an earlier call worked on
           ELSE {Stop(Crash(l))} \cup
                {Out(Wild(o.l), o.ret, o.alloc) : o \in UNION {FreeTarget(l, t) : t \in Addr}}

\* ---------------------------------------------------------- ll_get ---
ll_get(l, lst, index) ==
  IF lst = NULL THEN Out(l, NULL, "none")
  ELSE IF index < 0 \/ index >= ll_size(l, lst) THEN Out(l, NULL, "none")
  ELSE LET hits == IndexHits(l, index)
       IN  IF hits # <<>> THEN Out(l, l.mem[Head(hits)].element, "none")
           ELSE IF Loops(l.first, l.mem) THEN Stop(Hang(l))
           ELSE Out(l, NULL, "none")

ll_first(l, lst) == ll_get(l, lst, 0)

ll_last(l, lst) == ll_get(l, lst, ll_size(l, lst) - 1)

\* ---------------------------------------------------------- ll_set ---
ll_set(l, lst, index, element) ==
  IF lst = NULL THEN Out(l, NULL, "none")
  ELSE IF index < 0 \/ index >= ll_size(l, lst) THEN Out(l, NULL, "none")
  ELSE LET hits == IndexHits(l, index)
       IN  IF hits # <<>>
             THEN Out([l EXCEPT !.mem[Head(hits)].element = element],
                      l.mem[Head(hits)].element, "none")
           ELSE IF Loops(l.first, l.mem) THEN Stop(Hang(l))
           ELSE Out(l, NULL, "none")

\* --------------------------------------------- ll_indexof, ll_contains ---
\* The bytes a payload holds, as far as memcmp over __elem_size bytes can
\* tell: two payloads of the caller hold equal bytes when they agree here
Content(e) == e % 2

\* memcmp(element, temp->element, num_bytes) == 0
SameBytes(element, stored) == Content(element) = Content(stored)

\* memcmp reads through a pointer that designates no payload
Unreadable(p) == p \notin Elems

\* The scan   while(temp){ if(memcmp(...) == 0) ... }   from __first: the
\* cells at which it stops, in scan order
ElemHits(l, element) ==
  SelectSeq(Path(l.first, l.mem),
            LAMBDA t : \/ Unreadable(l.mem[t].element)
                       \/ SameBytes(element, l.mem[t].element))

ll_indexof(l, lst, element) ==
  IF lst = NULL THEN Out(l, -1, "none")
  ELSE LET hits == ElemHits(l, element)
       IN  IF hits # <<>>
             THEN IF Unreadable(l.mem[Head(hits)].element) THEN Stop(Crash(l))
                  ELSE Out(l, l.mem[Head(hits)].index, "none")
           ELSE IF Loops(l.first, l.mem) THEN Stop(Hang(l))
           ELSE Out(l, -1, "none")

ll_contains(l, lst, element) ==
  IF lst = NULL THEN Out(l, 1 - EXIST, "none")
  ELSE LET hits == ElemHits(l, element)
       IN  IF hits # <<>>
             THEN IF Unreadable(l.mem[Head(hits)].element) THEN Stop(Crash(l))
                  ELSE Out(l, EXIST, "none")
           ELSE IF Loops(l.first, l.mem) THEN Stop(Hang(l))
           ELSE Out(l, 1 - EXIST, "none")

\* -------------------------------------------------------- ll_clear ---
\* free(p) of a payload, with the set of payloads freed so far: a null
\* pointer is ignored; a pointer that is no live block (BadFree) ends the run
BadFree(freed, p) == p # NULL /\ (p \notin Elems \/ p \in freed)

\* ll_clear without the free() around ll_remove
FreePayload_kept(freed, p) == freed

FreePayload(freed, p) == IF p = NULL THEN freed ELSE freed \cup {p}

\* What a call leaves: the list, and the payloads it passed to free()
Left(l, freed) == [l |-> l, freed |-> freed]

\* while(ll_size(list) != 0) free(ll_remove(list, 0));
RECURSIVE ClearLoop(_, _)
ClearLoop(l, freed) ==
  IF ll_size(l, LIST) = 0 THEN {Left(l, freed)}
  ELSE UNION {
         IF r.l.fault # "none" THEN {Left(r.l, freed)}
         ELSE IF r.l = l THEN {Left(Hang(l), freed)}
         ELSE IF BadFree(freed, r.ret) THEN {Left(Crash(r.l), freed)}
         ELSE ClearLoop(r.l, FreePayload(freed, r.ret))
       : r \in ll_remove(l, LIST, 0)}

ll_clear(l, lst) == IF lst = NULL THEN {Left(l, {})} ELSE ClearLoop(l, {})

\* ---------------------------------------------------------- ll_itr ---
NoItr == [state |-> "free", next |-> NULL]

\* The cursor blocks malloc can return (free blocks are interchangeable: the
\* lowest stands for all)
FreeItrs(its) ==
  LET free == {j \in ItrIds : its[j].state = "free"}
  IN  {j \in free : \A k \in free : j <= k}

\* Outcomes: the cursor heap afterwards, the ll_itr_t* returned (an id), what
\* became of the malloc, and whether the call returned at all
ItrOut(its, r, a, f) == [its |-> its, ret |-> r, alloc |-> a, fault |-> f]

ll_itr(l, lst, its, index) ==
  IF lst = NULL THEN {ItrOut(its, NULL, "none", "none")}
  ELSE IF index < 0 \/ index >= ll_size(l, lst)
    THEN {ItrOut(its, NULL, "none", "none")}
  ELSE {ItrOut(its, NULL, "fail", "none")} \cup
       {LET hits == IndexHits(l, index)
        IN  IF hits # <<>>
              THEN ItrOut([its EXCEPT ![i] = [state |-> "held",
                                              next |-> Head(hits)]],
                          i, "ok", "none")
            ELSE IF Loops(l.first, l.mem) THEN ItrOut(its, NULL, "ok", "hang")
            \* index not found: the cursor is never handed to the caller
            ELSE ItrOut([its EXCEPT ![i] = [state |-> "lost", next |-> NULL]],
                        NULL, "ok", "none")
          : i \in FreeItrs(its)}

\* li_destroy: free(iterator)
li_destroy(its, i) == [its EXCEPT ![i] = NoItr]

\* -------------------------------------------------- li_hasnext, li_next ---
\* An outcome of a call on a cursor: the list and the cursor heap afterwards,
\* the value returned, and whether the call returned at all
CurOut(l, its, r, f) == [l |-> l, its |-> its, ret |-> r, fault |-> f]

\* return (temp->next ? EXIST : !EXIST);   with temp = iterator->__next, which
\* is null once the cursor has moved past the final node
li_hasnext(l, its, i) ==
  IF i = NULL THEN CurOut(l, its, 1 - EXIST, "none")
  ELSE LET temp == its[i].next
       IN  IF temp = NULL THEN CurOut(l, its, NULL, "crash")
           ELSE CurOut(l, its,
                       IF l.mem[temp].next # NULL THEN EXIST ELSE 1 - EXIST,
                       "none")

\* li_next with a cursor that is one static variable shared by every
\* iterator: moving one moves them all
li_next_shared(l, its, i) ==
  IF i = NULL THEN CurOut(l, its, NULL, "none")
  ELSE LET temp == its[i].next
       IN  IF temp # NULL
             THEN CurOut(l, [j \in ItrIds |->
                               IF its[j].state = "held"
                                 THEN [its[j] EXCEPT !.next = l.mem[temp].next]
                                 ELSE its[j]],
                         l.mem[temp].element, "none")
           ELSE CurOut(l, its, NULL, "none")

li_next(l, its, i) ==
  IF i = NULL THEN CurOut(l, its, NULL, "none")
  ELSE LET temp == its[i].next
       IN  IF temp # NULL
             THEN CurOut(l, [its EXCEPT ![i].next = l.mem[temp].next],
                         l.mem[temp].element, "none")
           ELSE CurOut(l, its, NULL, "none")

\* A change to the list ends the use of every cursor the caller holds: all
\* that may still be done with one is to destroy it
Outdated(its) ==
  [i \in ItrIds |-> IF its[i].state = "held"
                      THEN [state |-> "stale", next |-> NULL] ELSE its[i]]

\* ------------------------------------------------------------ calls ---
\* A call as the caller saw it: the function, the value it returned, what
\* became of its malloc, and the payloads it passed to free()
Call(op, ret, alloc, freed) ==
  [op |-> op, ret |-> ret, alloc |-> alloc, freed |-> freed]

Init ==
  /\ list = LIST
  /\ first = NULL
  /\ last = NULL
  /\ mem = [a \in Addr |-> Blank]
  /\ itrs = [i \in ItrIds |-> NoItr]
  /\ fault = "none"
  /\ call = Call("__ll_init", LIST, "ok", {})

\* A call that came back to its caller
Returned(l2) == l2.fault \in {"none", "wild"}

\* The list variables after a call that left list l2.  Of a call that never
\* came back only the fault is recorded.
Becomes(l2) ==
  /\ fault' = l2.fault
  /\ IF Returned(l2)
       THEN /\ first' = l2.first
            /\ last' = l2.last
            /\ mem' = l2.mem
            /\ itrs' = IF l2 = L THEN itrs ELSE Outdated(itrs)
       ELSE UNCHANGED <<first, last, mem, itrs>>

\* Payloads the caller can hand over: those no node holds for it
Mine == Elems \ {mem[a].element : a \in {c \in Addr : mem[c].live}}

Add ==
  /\ fault = "none"
  /\ \E index \in Indices, element \in Mine :
       \E o \in ll_add(L, list, index, element) :
         /\ Becomes(o.l)
         /\ call' = Call("ll_add", o.ret, o.alloc, {})
         /\ UNCHANGED list

Remove ==
  /\ fault = "none"
  /\ \E index \in Indices :
       \E o \in ll_remove(L, list, index) :
         /\ Becomes(o.l)
         /\ call' = Call("ll_remove", o.ret, o.alloc, {})
         /\ UNCHANGED list

Set ==
  /\ fault = "none"
  /\ \E index \in Indices, element \in Mine :
       LET o == ll_set(L, list, index, element)
       IN  /\ Becomes(o.l)
           /\ call' = Call("ll_set", o.ret, o.alloc, {})
           /\ UNCHANGED list

Get ==
  /\ fault = "none"
  /\ \E index \in Indices :
       LET o == ll_get(L, list, index)
       IN  /\ Becomes(o.l)
           /\ call' = Call("ll_get", o.ret, o.alloc, {})
           /\ UNCHANGED list

Size ==
  /\ fault = "none"
  /\ call' = Call("ll_size", ll_size(L, list), "none", {})
  /\ UNCHANGED <<list, first, last, mem, itrs, fault>>

Clear ==
  /\ fault = "none"
  /\ \E o \in ll_clear(L, list) :
       /\ Becomes(o.l)
       /\ call' = Call("ll_clear", NULL, "none", o.freed)
       /\ UNCHANGED list

\* ll_free: ll_clear(list); free(list).  The caller drops its handle.
Free ==
  /\ fault = "none"
  /\ list # NULL
  /\ \E o \in ll_clear(L, list) :
       /\ IF o.l.fault = "none"
            THEN /\ list' = NULL
                 /\ Becomes(Forget([o.l EXCEPT !.first = NULL, !.last = NULL]))
            ELSE /\ list' = list
                 /\ Becomes(o.l)
       /\ call' = Call("ll_free", NULL, "none", o.freed)

\* __ll_init: a new, empty list (or NULL when malloc fails)
NewList ==
  /\ fault = "none"
  /\ list = NULL
  /\ \E ok \in BOOLEAN :
       /\ list' = IF ok THEN LIST ELSE NULL
       /\ call' = Call("__ll_init", list', IF ok THEN "ok" ELSE "fail", {})
  /\ first' = NULL
  /\ last' = NULL
  /\ itrs' = Outdated(itrs)
  /\ UNCHANGED <<mem, fault>>

Itr ==
  /\ fault = "none"
  /\ \E index \in Indices :
       \E o \in ll_itr(L, list, itrs, index) :
         /\ fault' = o.fault
         /\ itrs' = o.its
         /\ call' = Call("ll_itr", o.ret, o.alloc, {})
         /\ UNCHANGED <<list, first, last, mem>>

Destroy ==
  /\ fault = "none"
  /\ \E i \in ItrIds :
       /\ itrs[i].state \in {"held", "stale"}
       /\ itrs' = li_destroy(itrs, i)
       /\ call' = Call("li_destroy", NULL, "none", {})
  /\ UNCHANGED <<list, first, last, mem, fault>>

\* ll_itr by a caller that keeps one cursor at a time
ItrAlone ==
  /\ Itr
  /\ call'.alloc = "ok" => \A i \in ItrIds : itrs[i].state = "free"

\* The cursors a caller can pass: a null pointer, or one it holds on a list
\* it has not changed since
Held == {NULL} \cup {i \in ItrIds : itrs[i].state = "held"}

\* The variables after a call on a cursor
CursorBecomes(o) ==
  /\ fault' = o.fault
  /\ first' = o.l.first
  /\ last' = o.l.last
  /\ mem' = o.l.mem
  /\ itrs' = o.its
  /\ UNCHANGED list

LiHasNext ==
  /\ fault = "none"
  /\ \E i \in Held :
       LET o == li_hasnext(L, itrs, i)
       IN  /\ CursorBecomes(o)
           /\ call' = Call("li_hasnext", o.ret, "none", {})

LiNext ==
  /\ fault = "none"
  /\ \E i \in Held :
       LET o == li_next(L, itrs, i)
       IN  /\ CursorBecomes(o)
           /\ call' = Call("li_next", o.ret, "none", {})

IndexOf ==
  /\ fault = "none"
  /\ \E element \in Elems :
       LET o == ll_indexof(L, list, element)
       IN  /\ Becomes(o.l)
           /\ call' = Call("ll_indexof", o.ret, o.alloc, {})
           /\ UNCHANGED list

Contains ==
  /\ fault = "none"
  /\ \E element \in Elems :
       LET o == ll_contains(L, list, element)
       IN  /\ Becomes(o.l)
           /\ call' = Call("ll_contains", o.ret, o.alloc, {})
           /\ UNCHANGED list

\* The list on its own
Next ==
  \/ Add
  \/ Remove
  \/ Set
  \/ Get
  \/ Size
  \/ Clear
  \/ Free
  \/ NewList

Spec == Init /\ [][Next]_vars

\* The list and the searches in it
NextFind ==
  \/ Next
  \/ IndexOf
  \/ Contains

FindSpec == Init /\ [][NextFind]_vars

\* The list and its cursors
NextItr ==
  \/ Next
  \/ ItrAlone
  \/ Destroy

ItrSpec == Init /\ [][NextItr]_vars

\* Lists built by ll_add and emptied by ll_clear, with several cursors on them
NextCursor ==
  \/ Add
  \/ Clear
  \/ Itr
  \/ Destroy
  \/ LiHasNext
  \/ LiNext

CursorSpec == Init /\ [][NextCursor]_vars

TypeOK ==
  /\ list \in {NULL, LIST}
  /\ first \in Addr \cup {NULL}
  /\ last \in Addr \cup {NULL}
  /\ fault \in {"none", "crash", "hang", "wild"}
  /\ call.freed \subseteq Elems

\* ====================================================== properties ===
\* The chain from __first, in traversal order, and its length
Nodes == Path(first, mem)
NodeCount == Len(Nodes)

\* C1: the node at traversal position k (from __first, counting from 0) has
\* cached index k, for every position of the chain.
C1_IndexContiguity ==
  \A k \in 1..NodeCount : mem[Nodes[k]].live /\ mem[Nodes[k]].index = k - 1

\* C2: __last is the final node of the chain from __first (its next link is
\* null), and __first is null exactly when __last is.
C2_HeaderInv ==
  /\ (first = NULL) <=> (last = NULL)
  /\ last # NULL => /\ NodeCount > 0
                    /\ Nodes[NodeCount] = last
                    /\ mem[last].next = NULL

\* C3: ll_size on a non-null list is the number of nodes reachable from
\* __first.
C3_SizeIsCount == list # NULL => ll_size(L, list) = NodeCount

\* What ll_size and ll_get return on list l (a non-null list)
SizeOf(l) == ll_size(l, LIST)
ElemAt(l, j) == ll_get(l, LIST, j).ret

\* The state is one a caller can make calls in, on a list it holds
Callable == fault = "none" /\ list # NULL

\* C4: for every index i in [0, size-1], ll_remove(list, i) makes ll_size
\* decrease by exactly one, and afterwards ll_get(list, j) for i <= j < new
\* size returns the element that was at index j+1 before.
C4_RemoveShifts ==
  Callable =>
    \A i \in 0..(SizeOf(L) - 1) : \A o \in ll_remove(L, list, i) :
      /\ o.l.fault = "none"
      /\ SizeOf(o.l) = SizeOf(L) - 1
      /\ \A j \in i..(SizeOf(o.l) - 1) : ElemAt(o.l, j) = ElemAt(L, j + 1)

\* C5: for every index i in [0, size], ll_add(list, i, e) whose allocation
\* succeeds returns 1, increases ll_size by exactly one, and ll_get(list, i)
\* then returns e.
C5_AddThenGet ==
  Callable =>
    \A i \in 0..SizeOf(L), e \in Mine : \A o \in ll_add(L, list, i, e) :
      o.alloc = "ok" =>
        /\ o.l.fault = "none"
        /\ o.ret = ADDED
        /\ SizeOf(o.l) = SizeOf(L) + 1
        /\ ElemAt(o.l, i) = e

\* C6: an ll_add(list, i, e) that returns 1 leaves ll_get(list, j) unchanged
\* for every j < i, and moves the element of every j in [i, old size) to j+1.
C6_AddShifts ==
  Callable =>
    \A i \in Indices, e \in Mine : \A o \in ll_add(L, list, i, e) :
      (o.l.fault = "none" /\ o.ret = ADDED) =>
        /\ \A j \in 0..(i - 1) : ElemAt(o.l, j) = ElemAt(L, j)
        /\ \A j \in i..(SizeOf(L) - 1) : ElemAt(o.l, j + 1) = ElemAt(L, j)

\* C7: a call with an index out of range changes nothing and allocates or
\* frees nothing: ll_add with index < 0 or index > size returns 0; ll_get,
\* ll_remove, ll_set and ll_itr with index < 0 or index >= size return NULL.
C7_OutOfRangeNoOp ==
  Callable =>
    \A index \in Indices :
      /\ (index < 0 \/ index > SizeOf(L)) =>
            \A e \in Elems : ll_add(L, list, index, e) = {Out(L, 0, "none")}
      /\ (index < 0 \/ index >= SizeOf(L)) =>
            /\ ll_get(L, list, index) = Out(L, NULL, "none")
            /\ ll_remove(L, list, index) = {Out(L, NULL, "none")}
            /\ \A e \in Elems : ll_set(L, list, index, e) = Out(L, NULL, "none")
            /\ ll_itr(L, list, itrs, index) = {ItrOut(itrs, NULL, "none", "none")}

\* C7 witness: an ll_add on a list with nodes was turned down for its index
C7_Witness ==
  /\ call.op = "ll_add" /\ call.ret = 0 /\ call.alloc = "none"
  /\ list # NULL /\ NodeCount >= 1

\* C8: when the node allocation in ll_add or the cursor allocation in ll_itr
\* fails, the call returns 0 / NULL and the list, its nodes and the cursors
\* are as they were.
C8_AllocFailAtomic ==
  [][(call'.op \in {"ll_add", "ll_itr"} /\ call'.alloc = "fail") =>
       (call'.ret = 0 /\ UNCHANGED <<list, first, last, mem, itrs, fault>>)]_vars

\* C8 witness: an ll_add on a list with nodes has failed to allocate
C8_Witness ==
  /\ call.op = "ll_add" /\ call.alloc = "fail" /\ call.ret = 0
  /\ NodeCount >= 1

\* C9: ll_clear returns and leaves the list empty: ll_size is 0, __first and
\* __last are null, every node that was in the chain is destroyed, and
\* ll_get / ll_remove at any index, ll_first and ll_last return NULL.
C9_ClearEmpties ==
  Callable =>
    \A o \in ll_clear(L, list) :
      /\ o.l.fault = "none"
      /\ SizeOf(o.l) = 0
      /\ o.l.first = NULL /\ o.l.last = NULL
      /\ \A a \in Chain(L) : ~o.l.mem[a].live
      /\ \A i \in Indices : /\ ElemAt(o.l, i) = NULL
                             /\ ll_remove(o.l, list, i) = {Out(o.l, NULL, "none")}
      /\ ll_first(o.l, list).ret = NULL
      /\ ll_last(o.l, list).ret = NULL

\* C10 as stated: no call passes a payload to free().
C10_NoPayloadFreed == call.freed = {}

\* C10 as amended: only ll_clear and ll_free pass payloads to free(), and
\* they free the payload of every node of the chain they destroy.
C10_ClearFreesPayloads ==
  [][/\ call'.op \notin {"ll_clear", "ll_free"} => call'.freed = {}
     /\ (call'.op \in {"ll_clear", "ll_free"} /\ fault' = "none") =>
          call'.freed = {mem[a].element : a \in {c \in Chain(L) : ~mem'[c].live}}
    ]_vars

\* C10 witness: ll_clear has returned after freeing payloads
C10_Witness ==
  call.op = "ll_clear" /\ call.freed # {} /\ fault = "none" /\ first = NULL

\* The cursors the caller holds on the list as it is
HeldItrs == {i \in ItrIds : itrs[i].state = "held"}

\* C11: for every cursor obtained from ll_itr and moved by li_next calls on
\* an unchanged list, li_hasnext returns 1 exactly when the li_next that
\* follows would return an element, that is exactly when the cursor's node
\* reference is not null.
C11_HasNextIffNext ==
  fault = "none" =>
    \A i \in HeldItrs :
      LET h == li_hasnext(L, itrs, i)
          n == li_next(L, itrs, i)
      IN  /\ h.fault = "none"
          /\ (h.ret = EXIST) <=> (n.ret # NULL)
          /\ (h.ret = EXIST) <=> (itrs[i].next # NULL)

\* C12: on a cursor that li_next has moved past the final node (its node
\* reference is null), li_hasnext returns 0 and changes nothing.
C12_HasNextExhausted ==
  fault = "none" =>
    \A i \in HeldItrs :
      itrs[i].next = NULL => li_hasnext(L, itrs, i) = CurOut(L, itrs, 0, "none")

\* The values the first k li_next calls on cursor i return, in order
RECURSIVE Yields(_, _, _, _)
Yields(l, its, i, k) ==
  IF k = 0 THEN <<>>
  ELSE LET o == li_next(l, its, i)
       IN  <<o.ret>> \o Yields(o.l, o.its, i, k - 1)

\* The cursor heap after the first k li_next calls on cursor i
RECURSIVE Moved(_, _, _, _)
Moved(l, its, i, k) ==
  IF k = 0 THEN its ELSE Moved(l, li_next(l, its, i).its, i, k - 1)

\* C13: on a list of size n, ll_itr(list, s) with 0 <= s < n whose allocation
\* succeeds returns a cursor; the li_next calls on it return the elements at
\* indices s, s+1, ..., n-1 in that order, and every later li_next returns
\* NULL and leaves the cursor exhausted.
C13_IteratorProtocol ==
  Callable =>
    \A s \in 0..(SizeOf(L) - 1) : \A o \in ll_itr(L, list, itrs, s) :
      o.alloc = "ok" =>
        /\ o.fault = "none" /\ o.ret # NULL
        /\ LET n == SizeOf(L)
               y == Yields(L, o.its, o.ret, n - s + 2)
           IN  /\ \A k \in 1..(n - s) : y[k] # NULL /\ y[k] = ElemAt(L, s + k - 1)
               /\ \A k \in (n - s + 1)..(n - s + 2) :
                    /\ y[k] = NULL
                    /\ Moved(L, o.its, o.ret, k)[o.ret].next = NULL

\* C14: ll_itr, li_hasnext, li_next and li_destroy leave the list header, the
\* chain and every node as they were, and change at most the one cursor they
\* were called on.
C14_CursorsNonOwning ==
  [][call'.op \in {"ll_itr", "li_hasnext", "li_next", "li_destroy"} =>
       /\ UNCHANGED <<list, first, last, mem>>
       /\ Cardinality({i \in ItrIds : itrs'[i] # itrs[i]}) <= 1]_vars

\* C14 witness: with two cursors at different nodes of the same list, li_next
\* on one of them has returned an element
C14_Witness ==
  /\ call.op = "li_next" /\ call.ret # NULL
  /\ HeldItrs = ItrIds
  /\ \E i, j \in ItrIds : itrs[i].next # itrs[j].next /\ itrs[j].next # NULL

\* C15: for every i in [0, size), ll_set(list, i, e2) returns the element
\* that was at i, ll_get(list, i) then returns e2, and ll_size, every node's
\* index and the element at every other index are as before.
C15_SetRoundTrip ==
  Callable =>
    \A i \in 0..(SizeOf(L) - 1), e2 \in Mine :
      LET o == ll_set(L, list, i, e2)
      IN  /\ o.l.fault = "none"
          /\ o.ret = ElemAt(L, i)
          /\ ElemAt(o.l, i) = e2
          /\ SizeOf(o.l) = SizeOf(L)
          /\ \A a \in Addr : o.l.mem[a].index = mem[a].index
          /\ \A j \in Indices \ {i} : ElemAt(o.l, j) = ElemAt(L, j)

\* The traversal positions (from 0) whose stored element holds the bytes of e
Positions(e) ==
  {k \in 0..(NodeCount - 1) : SameBytes(e, mem[Nodes[k + 1]].element)}

\* The state is one a call has returned into, on a list the caller holds
Reached == fault \in {"none", "wild"} /\ list # NULL

\* C16: in every state the list functions leave, ll_indexof(list, e) returns
\* the smallest traversal position whose stored element is byte-equal to e,
\* and -1 when there is none; ll_contains returns 1 exactly when ll_indexof
\* does not return -1; neither changes the list.
C16_IndexOfFirstMatch ==
  Reached =>
    \A e \in Elems :
      LET r == ll_indexof(L, list, e)
          c == ll_contains(L, list, e)
      IN  /\ r.l = L /\ c.l = L
          /\ IF Positions(e) = {} THEN r.ret = -1
             ELSE r.ret \in Positions(e) /\ \A k \in Positions(e) : r.ret <= k
          /\ (c.ret = EXIST) <=> (r.ret # -1)

\* C17: ll_first returns the element of the first chained node and ll_last
\* that of the final chained node; on an empty list both return NULL and
\* ll_remove(list, 0) returns NULL and changes nothing.
C17_FirstLast ==
  Callable =>
    /\ ll_first(L, list).l.fault = "none"
    /\ ll_last(L, list).l.fault = "none"
    /\ IF NodeCount = 0
         THEN /\ ll_first(L, list).ret = NULL
              /\ ll_last(L, list).ret = NULL
              /\ ll_remove(L, list, 0) = {Out(L, NULL, "none")}
         ELSE /\ ll_first(L, list).ret = mem[Nodes[1]].element
              /\ ll_last(L, list).ret = mem[Nodes[NodeCount]].element

\* C18: for every i in [0, size], ll_add(list, i, e) followed by
\* ll_remove(list, i) returns e and puts the list back: ll_size, the element
\* at every index, __first, __last and the nodes of the chain with their
\* indices are as before the two calls.
C18_AddRemoveRoundTrip ==
  Callable =>
    \A i \in 0..SizeOf(L), e \in Mine : \A o \in ll_add(L, list, i, e) :
      o.alloc = "ok" =>
        \A r \in ll_remove(o.l, list, i) :
          /\ r.l.fault = "none"
          /\ r.ret = e
          /\ SizeOf(r.l) = SizeOf(L)
          /\ \A j \in Indices : ElemAt(r.l, j) = ElemAt(L, j)
          /\ r.l.first = first /\ r.l.last = last
          /\ \A a \in Chain(L) : r.l.mem[a] = mem[a]

\* ll_size (and the append branch of ll_add) reads the node __last points
\* to: a node that free() has been called on
ReadsFreed(l) == l.last # NULL /\ ~l.mem[l.last].live

\* C19: in no state reached by the list functions does ll_size read a
\* destroyed node through __last, does a chained node lie in freed memory,
\* or does ll_remove free through an unassigned target.
C19_NoDestroyedAccess ==
  /\ fault \notin {"crash", "wild"}
  /\ list # NULL =>
       /\ ~ReadsFreed(L)
       /\ \A a \in Chain(L) : mem[a].live

\* The nodes ll_add has allocated and ll_remove has not destroyed
Allocated == {a \in Addr : mem[a].live}

\* C20: the nodes allocated and not yet destroyed are exactly the nodes
\* reachable from __first.
C20_NoOrphans == Allocated = Chain(L)

====
